---- MODULE Spec2Model ----
(***************************************************************************)
(* MarketPulse-Pro: the Watchdog (QualityMonitor, src/src/validator.py),   *)
(* the pagination loop (BaseExtractor.extract, src/src/extractor.py) and   *)
(* the per-page extraction of BookScraper (src/src/scraper.py).            *)
(*                                                                         *)
(* Ratios are exact rationals: the threshold is a number of hundredths     *)
(* (ThresholdDen), the batch failure ratio is the pair <<failures,         *)
(* attempts>>, and the tolerance 1e-9 is 1/EpsDen.  The code computes the  *)
(* same comparison in binary floating point; its rounding error (below     *)
(* 1e-15) is far smaller than the tolerance, which in turn is far smaller  *)
(* than the gap 1/(ThresholdDen * attempts) between two distinct values of *)
(* the comparison for every batch size of the model.                       *)
(***************************************************************************)
EXTENDS Integers, Sequences, FiniteSets, TLC

\* ---------------------------------------------------------------- bounds
MaxPages == 2           \* pages a run may fetch on the small source
MaxCandidates == 2      \* candidates per page on the small source
MaxCalls == 4           \* record_* calls per monitoring session (SpecMonitor)
MaxBatch == 100         \* batch sizes drawn for evaluate_batch (SpecEval)
MaxWords == 2           \* pieces a raw text is made of (SpecNormalize)
MaxPrior == 4           \* attempts of earlier batches a second monitor has seen
MaxElements == 2        \* product elements on the page of SpecSchema

\* ------------------------------------------------------ program constants
ThresholdDen == 100             \* thresholds are hundredths (0.30 = 30%)
EpsDen == 1000000000            \* the tolerance 1e-9 of evaluate_batch
RotationPeriod == 5             \* pages between user-agent rotations
ScenarioCandidates == 10        \* the 10-candidate page of the test scenarios

Thresholds == {0, 30, 50, 100}  \* watchdog_failure_threshold, in hundredths
Urls == {"base", "next"}        \* page identifiers; "base" is config.base_url
None == "None"                  \* Python's None where a URL is expected

\* The sources the loop is run against: a small multi-page source, the
\* single wide page of the end-to-end test scenarios, and a source of
\* RotationPeriod pages on which no element is found.
\* max_runs is the number of extract() calls made on the scraper instance.
Envs ==
    { [max_pages |-> MaxPages, max_cands |-> MaxCandidates, max_runs |-> 1],
      [max_pages |-> 1, max_cands |-> ScenarioCandidates, max_runs |-> 1],
      [max_pages |-> RotationPeriod, max_cands |-> 0, max_runs |-> 1] }

\* one scraper instance whose extract() is called twice
RerunEnvs ==
    { [max_pages |-> 1, max_cands |-> MaxCandidates, max_runs |-> 2],
      [max_pages |-> RotationPeriod, max_cands |-> 0, max_runs |-> 2] }

VARIABLES
    config,            \* GlobalConfig: watchdog_failure_threshold, pagination_limit
    env,               \* the source the run is driven against (one of Envs)
    monitor,           \* QualityMonitor: the four counters and _current_url
    verdict,           \* "PASS"/"HALT" while evaluate_batch is the monitor's last call
    tally,             \* ghost: record_* calls since reset / since start_batch
    pc,                \* position of extract()
    items,             \* BaseExtractor._items
    total_attempted,   \* BaseExtractor._total_attempted
    total_succeeded,   \* BaseExtractor._total_succeeded
    pages_scraped,     \* BaseExtractor._pages_scraped
    current_url,       \* extract(): local current_url (a URL or None)
    page_url,          \* page.url, the page the browser is on
    validated_items,   \* extract_items_from_page(): local validated_items
    product_elements,  \* extract_items_from_page(): number of elements located
    idx,               \* extract_items_from_page(): elements processed so far
    raised,            \* <<>> or <<exception>> propagating out of extract()
    result,            \* <<>> or <<ExtractionResult>> returned by extract()
    calls,             \* ghost: number of calls made to each collaborator
    served,            \* ghost: per fetched page, what the source delivered
    main_pc,           \* position of main(); "library" when extract() is
                       \* driven directly, without main()
    fatal,             \* <<>> or <<exception>> that ended main()'s work
    exit_code,         \* <<>> or <<code>> the process ended with
    value,             \* the raw text handed to the field normalizers
    stock,             \* <<>> or <<parse_stock(value)>>
    rating,            \* <<>> or <<parse_rating(value)>>
    price,             \* <<>> or <<outcome of the price field for value>>
    title,             \* <<>> or <<outcome of the title field for value>>
    candidate,         \* <<>> or <<raw fields of the candidate last processed>>
    manager,           \* BrowserManager: the three handles and _current_user_agent
    create,            \* position of BrowserManager.create and what leaves it
    closes             \* ghost: the close/stop calls made on the resources

monitorVars == <<monitor, verdict, tally>>
loopState == <<pc, items, total_attempted, total_succeeded, pages_scraped,
               current_url, page_url, validated_items, product_elements, idx,
               result, calls, served>>
loopVars == <<loopState, raised>>
mainVars == <<main_pc, fatal, exit_code>>
normVars == <<value, stock, rating, price, title, candidate>>
browserVars == <<manager, create, closes>>
vars == <<config, env, monitorVars, loopVars, mainVars, normVars, browserVars>>

\* ------------------------------------------------------- QualityMonitor

\* QualityMonitor.__init__
NewMonitor ==
    [ batch_attempts |-> 0, batch_successes |-> 0,
      total_attempts |-> 0, total_successes |-> 0, current_url |-> "" ]

\* mutant: start_batch written as reset() followed by the URL assignment
StartBatchResetsTotals(m, url) ==
    [m EXCEPT !.batch_attempts = 0, !.batch_successes = 0,
              !.total_attempts = 0, !.total_successes = 0, !.current_url = url]

StartBatch(m, url) ==
    [m EXCEPT !.batch_attempts = 0, !.batch_successes = 0, !.current_url = url]

RecordSuccess(m) ==
    [m EXCEPT !.batch_attempts = @ + 1, !.batch_successes = @ + 1,
              !.total_attempts = @ + 1, !.total_successes = @ + 1]

\* mutant: record_failure written as a copy of record_success's second half
RecordFailureCountsSuccess(m) ==
    [m EXCEPT !.batch_successes = @ + 1, !.total_successes = @ + 1]

\* mutant: record_failure forgets the cumulative counter
RecordFailureBatchOnly(m) ==
    [m EXCEPT !.batch_attempts = @ + 1]

RecordFailure(m) ==
    [m EXCEPT !.batch_attempts = @ + 1, !.total_attempts = @ + 1]

\* 1.0 - successes/attempts as the fraction <<numerator, denominator>>
FailureRatio(successes, attempts) ==
    IF attempts = 0 THEN <<0, 1>> ELSE <<attempts - successes, attempts>>

BatchFailureRatio(m) == FailureRatio(m.batch_successes, m.batch_attempts)

TotalFailureRatio(m) == FailureRatio(m.total_successes, m.total_attempts)

\* mutant: the threshold as an inclusive bound (failure_ratio >= threshold)
ExceedsThresholdInclusive(ratio, threshold) ==
    ratio[1] * ThresholdDen >= threshold * ratio[2]

\* failure_ratio > threshold + 1e-9, for ratio = n/d and threshold = t/ThresholdDen:
\*   n/d > t/ThresholdDen + 1/EpsDen
\*   <=> (n*ThresholdDen - t*d) * EpsDen > d * ThresholdDen
\*   <=> n*ThresholdDen - t*d > floor(d * ThresholdDen / EpsDen)   (integers)
ExceedsThreshold(ratio, threshold) ==
    ratio[1] * ThresholdDen - threshold * ratio[2]
        > (ratio[2] * ThresholdDen) \div EpsDen

\* mutant: an empty batch reported as a layout shift
EvaluateBatchEmptyHalts(m, cfg) ==
    IF m.batch_attempts = 0
       \/ ExceedsThreshold(BatchFailureRatio(m), cfg.watchdog_failure_threshold)
    THEN << [ type |-> "LayoutShiftError",
              failure_ratio |-> BatchFailureRatio(m),
              threshold |-> cfg.watchdog_failure_threshold,
              batch_size |-> m.batch_attempts,
              url |-> m.current_url ] >>
    ELSE <<>>

\* mutant: the error reports the cumulative attempts as the batch size
EvaluateBatchTotalSize(m, cfg) ==
    IF m.batch_attempts = 0
    THEN <<>>
    ELSE IF ExceedsThreshold(BatchFailureRatio(m), cfg.watchdog_failure_threshold)
         THEN << [ type |-> "LayoutShiftError",
                   failure_ratio |-> BatchFailureRatio(m),
                   threshold |-> cfg.watchdog_failure_threshold,
                   batch_size |-> m.total_attempts,
                   url |-> m.current_url ] >>
         ELSE <<>>

\* mutant: a batch of a single attempt is too small to be judged
EvaluateBatchSkipsSingletons(m, cfg) ==
    IF m.batch_attempts <= 1
    THEN <<>>
    ELSE IF ExceedsThreshold(BatchFailureRatio(m), cfg.watchdog_failure_threshold)
         THEN << [ type |-> "LayoutShiftError",
                   failure_ratio |-> BatchFailureRatio(m),
                   threshold |-> cfg.watchdog_failure_threshold,
                   batch_size |-> m.batch_attempts,
                   url |-> m.current_url ] >>
         ELSE <<>>

\* mutant: the cumulative failure ratio is the one compared with the threshold
EvaluateBatchCumulative(m, cfg) ==
    IF m.batch_attempts = 0
    THEN <<>>
    ELSE IF ExceedsThreshold(TotalFailureRatio(m), cfg.watchdog_failure_threshold)
         THEN << [ type |-> "LayoutShiftError",
                   failure_ratio |-> TotalFailureRatio(m),
                   threshold |-> cfg.watchdog_failure_threshold,
                   batch_size |-> m.batch_attempts,
                   url |-> m.current_url ] >>
         ELSE <<>>

\* evaluate_batch: <<>> when it returns, <<LayoutShiftError>> when it raises
EvaluateBatch(m, cfg) ==
    IF m.batch_attempts = 0
    THEN <<>>
    ELSE IF ExceedsThreshold(BatchFailureRatio(m), cfg.watchdog_failure_threshold)
         THEN << [ type |-> "LayoutShiftError",
                   failure_ratio |-> BatchFailureRatio(m),
                   threshold |-> cfg.watchdog_failure_threshold,
                   batch_size |-> m.batch_attempts,
                   url |-> m.current_url ] >>
         ELSE <<>>

\* mutant: evaluate_batch closes the batch it has judged
MonitorAfterEvaluateClearsBatch(m, cfg) ==
    [m EXCEPT !.batch_attempts = 0, !.batch_successes = 0]

\* the monitor after evaluate_batch: no attribute is assigned on any path
MonitorAfterEvaluate(m, cfg) == m

Verdict(err) == IF err = <<>> THEN "PASS" ELSE "HALT"

\* get_summary / BookScraper.get_quality_summary: the cumulative counters
GetSummary(m) ==
    [ total_attempts |-> m.total_attempts,
      total_successes |-> m.total_successes,
      total_failures |-> m.total_attempts - m.total_successes,
      failure_ratio |-> TotalFailureRatio(m) ]

Reset(m) ==
    [m EXCEPT !.batch_attempts = 0, !.batch_successes = 0,
              !.total_attempts = 0, !.total_successes = 0, !.current_url = ""]

\* ------------------------------------------------------------ ghost tally
NoTally == [succ |-> 0, fail |-> 0, batch_succ |-> 0, batch_fail |-> 0, url |-> ""]

TallySuccess(t) == [t EXCEPT !.succ = @ + 1, !.batch_succ = @ + 1]
TallyFailure(t) == [t EXCEPT !.fail = @ + 1, !.batch_fail = @ + 1]
TallyBatch(t, url) == [t EXCEPT !.batch_succ = 0, !.batch_fail = 0, !.url = url]

\* ghost: whether a page.goto delivered the page (a response below 400)
GotoSucceeded(goto) == goto.kind = "response" /\ goto.status \in 200 .. 399

\* ------------------------------------------------------------------ Init
NoCalls ==
    [ new_page |-> 0, navigate |-> 0, start_batch |-> 0, evaluate_batch |-> 0,
      get_next_page_url |-> 0, rotate_user_agent |-> 0, close |-> 0 ]

\* BaseExtractor.__init__ and BookScraper.__init__
InitLoop ==
    /\ pc = "idle"
    /\ items = <<>>
    /\ total_attempted = 0
    /\ total_succeeded = 0
    /\ pages_scraped = 0
    /\ current_url = None
    /\ page_url = None
    /\ validated_items = <<>>
    /\ product_elements = 0
    /\ idx = 0
    /\ raised = <<>>
    /\ result = <<>>
    /\ calls = NoCalls
    /\ served = <<>>

\* ---------------------------------------------------- BrowserManager
UserAgents == {"agent-1", "agent-2"}   \* config.user_agents, the rotation pool

\* BrowserManager.__init__: no handle yet, a user-agent already selected
NewManager(agent) ==
    [ playwright |-> None, browser |-> None, context |-> None,
      current_user_agent |-> agent ]

\* the manager once _initialize has returned
InitializedManager(agent) ==
    [ playwright |-> "Playwright", browser |-> "Browser",
      context |-> "BrowserContext", current_user_agent |-> agent ]

\* rotate_user_agent: self._current_user_agent = self._select_user_agent()
SelectUserAgent(m, agent) == [m EXCEPT !.current_user_agent = agent]

\* mutant: the handle is dropped only when its close() returned
CloseHandleUnlessFailed(m, name, failed) ==
    IF failed THEN m ELSE [m EXCEPT ![name] = None]

\* _cleanup, one resource: the handle is set to None whether or not its
\* close() raised (`failed`); the exception is logged, not raised
CloseHandle(m, name, failed) == [m EXCEPT ![name] = None]

\* _cleanup as a whole
Cleanup(m) ==
    CloseHandle(CloseHandle(CloseHandle(m, "context", FALSE), "browser", FALSE),
                "playwright", FALSE)

\* ghost: one close()/stop() call on a resource and whether it raised
CloseCall(name, failed) == << [resource |-> name, failed |-> failed] >>

\* ghost: the calls one _cleanup makes, in the order it makes them
CleanupCalls(m) ==
    (IF m.context # None THEN CloseCall("context", FALSE) ELSE <<>>)
        \o (IF m.browser # None THEN CloseCall("browser", FALSE) ELSE <<>>)
        \o (IF m.playwright # None THEN CloseCall("playwright", FALSE) ELSE <<>>)

\* the `async with` block is left: _cleanup has run and `err` goes on
LeaveCreate(c, err) == [c EXCEPT !.pc = "left", !.raised = err]

\* is_initialized
IsInitialized(m) ==
    m.playwright # None /\ m.browser # None /\ m.context # None

\* the `async with BrowserManager.create(config)` block has been entered by
\* the caller: the scraper is handed an initialized manager
InitYielded ==
    /\ manager = InitializedManager("agent-1")
    /\ create = [pc |-> "yielded", raised |-> <<>>, in_except |-> FALSE]
    /\ closes = <<>>

\* no raw value is being normalized
InitNoValue ==
    /\ value = ""
    /\ stock = <<>>
    /\ rating = <<>>
    /\ price = <<>>
    /\ title = <<>>
    /\ candidate = <<>>

\* no main(): the scraper is constructed and driven by its caller
InitLibrary ==
    /\ main_pc = "library"
    /\ fatal = <<>>
    /\ exit_code = <<>>
    /\ InitNoValue
    /\ InitYielded

InitMonitor ==
    /\ monitor = NewMonitor
    /\ verdict = "none"
    /\ tally = NoTally

Init ==
    /\ env \in Envs
    /\ config \in [ watchdog_failure_threshold : Thresholds,
                    pagination_limit : 0 .. env.max_pages ]
    /\ InitMonitor
    /\ InitLoop
    /\ InitLibrary

\* ------------------------------------------- the monitor's API, any order
CallStartBatch ==
    /\ \E url \in Urls :
          /\ monitor' = StartBatch(monitor, url)
          /\ tally' = TallyBatch(tally, url)
    /\ verdict' = "none"
    /\ raised' = <<>>
    /\ UNCHANGED <<config, env, browserVars, normVars, mainVars, loopState>>

CallRecordSuccess ==
    /\ monitor.total_attempts < MaxCalls
    /\ monitor' = RecordSuccess(monitor)
    /\ tally' = TallySuccess(tally)
    /\ verdict' = "none"
    /\ raised' = <<>>
    /\ UNCHANGED <<config, env, browserVars, normVars, mainVars, loopState>>

CallRecordFailure ==
    /\ monitor.total_attempts < MaxCalls
    /\ monitor' = RecordFailure(monitor)
    /\ tally' = TallyFailure(tally)
    /\ verdict' = "none"
    /\ raised' = <<>>
    /\ UNCHANGED <<config, env, browserVars, normVars, mainVars, loopState>>

CallEvaluateBatch ==
    /\ verdict' = Verdict(EvaluateBatch(monitor, config))
    /\ raised' = EvaluateBatch(monitor, config)
    /\ monitor' = MonitorAfterEvaluate(monitor, config)
    /\ UNCHANGED <<config, env, browserVars, normVars, mainVars, tally, loopState>>

CallReset ==
    /\ monitor' = Reset(monitor)
    /\ tally' = NoTally
    /\ verdict' = "none"
    /\ raised' = <<>>
    /\ UNCHANGED <<config, env, browserVars, normVars, mainVars, loopState>>

NextMonitor ==
    \/ CallStartBatch
    \/ CallRecordSuccess
    \/ CallRecordFailure
    \/ CallEvaluateBatch
    \/ CallReset

SpecMonitor == Init /\ [][NextMonitor]_vars

\* ------------------------------- evaluate_batch on drawn batch counters
InitEval ==
    /\ env \in Envs
    /\ config \in [ watchdog_failure_threshold : Thresholds,
                    pagination_limit : {0} ]
    /\ \E a \in 0 .. MaxBatch : \E s \in 0 .. a :
          /\ monitor = [ batch_attempts |-> a, batch_successes |-> s,
                         total_attempts |-> a, total_successes |-> s,
                         current_url |-> "base" ]
          /\ tally = [succ |-> s, fail |-> a - s,
                      batch_succ |-> s, batch_fail |-> a - s, url |-> "base"]
    /\ verdict = "none"
    /\ InitLoop
    /\ InitLibrary

SpecEval == InitEval /\ [][CallEvaluateBatch]_vars

\* ------------------------------------------------- BookScraper / extract()
Kinds == {"ok", "invalid", "error"}   \* a candidate: valid, fails validation,
                                      \* or raises while its fields are read

\* _extract_single_item: <<record>> when validation succeeds, <<>> for None.
\* Both except clauses (ValidationError, Exception) return None.
ExtractSingleItem(kind, page, index) ==
    IF kind = "ok" THEN << [page |-> page, index |-> index] >> ELSE <<>>

\* mutant: record_attempt counts successful attempts only
RecordAttemptSuccessOnly(counters, succeeded) ==
    IF succeeded THEN << counters[1] + 1, counters[2] + 1 >> ELSE counters

\* record_attempt on the pair <<_total_attempted, _total_succeeded>>
RecordAttempt(counters, succeeded) ==
    << counters[1] + 1, IF succeeded THEN counters[2] + 1 ELSE counters[2] >>

\* mutant: a failing candidate ends the loop over the page's elements
NextIndexBreak(i, n, ok) == IF ok THEN i + 1 ELSE n

\* for idx, element in enumerate(product_elements): the loop goes on to the
\* next element whatever became of this one (both outcomes are handled inside
\* the loop body)
NextIndex(i, n, ok) == i + 1

\* mutant: the limit compared with > instead of >=
LimitReachedOffByOne(cfg, pages) ==
    cfg.pagination_limit > 0 /\ pages > cfg.pagination_limit

\* mutant: the limit's sign test reversed, so that no limit is ever in force
LimitReachedWrongSign(cfg, pages) ==
    cfg.pagination_limit < 0 /\ pages >= cfg.pagination_limit

\* the limit check at the head of the while loop
LimitReached(cfg, pages) ==
    cfg.pagination_limit > 0 /\ pages >= cfg.pagination_limit

\* mutant: the page's records reach self._items before the batch is evaluated
ExtendItemsAlways(its, page_items, err) == its \o page_items

\* self._items.extend(page_items) runs only if extract_items_from_page returned
ExtendItems(its, page_items, err) ==
    IF err = <<>> THEN its \o page_items ELSE its

\* mutant: the LayoutShiftError is swallowed and the loop continues
AfterPageSwallow(err) == "next_page"

\* where extract() goes after extract_items_from_page: the exception leaves
\* the loop through the finally clause
AfterPage(err) == IF err = <<>> THEN "next_page" ELSE "finally"

\* mutant: a failed detection sends the loop back to the start page
NextPageUrlRestartsOnError(found) ==
    IF found \in Urls THEN found
    ELSE IF found = "exception" THEN "base" ELSE None

\* get_next_page_url: no button, no href and any exception all give None
NextPageUrl(found) == IF found \in Urls THEN found ELSE None

\* mutant: the rotation comes one page early
RotationDueOnePageEarly(pages) == (pages + 1) % RotationPeriod = 0

\* if self._pages_scraped % 5 == 0: rotate_user_agent()
RotationDue(pages) == pages % RotationPeriod = 0

\* ExtractionResult(...) built after the finally clause
MakeResult(its, attempted, succeeded, pages) ==
    [ items |-> its, total_attempted |-> attempted,
      total_succeeded |-> succeeded, pages_scraped |-> pages,
      source_url |-> "base" ]

\* ExtractionResult.success_rate as the fraction <<numerator, denominator>>:
\* 0.0 when nothing was attempted
SuccessRate(r) ==
    IF r.total_attempted = 0 THEN <<0, 1>>
    ELSE <<r.total_succeeded, r.total_attempted>>

\* ExtractionResult.failure_rate: 1.0 - self.success_rate
FailureRate(r) == << SuccessRate(r)[2] - SuccessRate(r)[1], SuccessRate(r)[2] >>

Bump(c, name) == [c EXCEPT ![name] = @ + 1]

\* mutant: the loop goes on only while it is on the start URL
LoopContinuesOnStartUrl(url) == url = "base"

\* while current_url is not None
LoopContinues(url) == url # None

\* what page.goto can do: answer with a status, answer nothing (None), time
\* out, or fail in any other way
GotoOutcomes ==
    { [kind |-> "response", status |-> 200],
      [kind |-> "response", status |-> 399],
      [kind |-> "response", status |-> 400],
      [kind |-> "response", status |-> 503],
      [kind |-> "no_response", status |-> 0],
      [kind |-> "timeout", status |-> 0],
      [kind |-> "error", status |-> 0] }

NavigationError(url, goto) ==
    << [type |-> "NavigationError", url |-> url,
        reason |-> goto.kind, status_code |-> goto.status] >>

\* mutant: only statuses above 400 are failures
BrowserNavigateAbove400(goto, url) ==
    IF goto.kind = "response" /\ goto.status <= 400
    THEN <<>>
    ELSE NavigationError(url, goto)

\* BrowserManager.navigate: <<>> when it returns, <<NavigationError>> when
\* the response is None, its status is >= 400, or page.goto raised
BrowserNavigate(goto, url) ==
    IF goto.kind = "response" /\ goto.status < 400
    THEN <<>>
    ELSE NavigationError(url, goto)

\* mutant: page.close() placed after the loop instead of in a finally clause
PageCloseOnSuccessOnly(c, err) == IF err = <<>> THEN Bump(c, "close") ELSE c

\* finally: await page.close(), whatever is propagating
PageClose(c, err) == Bump(c, "close")

\* extract(): state reset (the four attributes of the extractor; the
\* monitor is not touched), browser.new_page(), current_url = start_url.
\* A call after an earlier one has ended starts from what that call left.
ExtractBegin ==
    /\ pc \in {"idle", "done"}
    /\ calls.new_page < env.max_runs
    /\ items' = <<>>
    /\ total_attempted' = 0
    /\ total_succeeded' = 0
    /\ pages_scraped' = 0
    /\ current_url' = "base"
    /\ calls' = Bump(calls, "new_page")
    /\ raised' = <<>>
    /\ result' = <<>>
    /\ served' = <<>>
    /\ pc' = "loop"
    /\ UNCHANGED <<config, env, browserVars, normVars, mainVars, monitorVars, page_url, validated_items,
                   product_elements, idx>>

\* while current_url is not None: falls through when no next page was found
PaginationExhausted ==
    /\ pc = "loop"
    /\ ~LoopContinues(current_url)
    /\ pc' = "finally"
    /\ UNCHANGED <<config, env, browserVars, normVars, mainVars, monitorVars, items, total_attempted,
                   total_succeeded, pages_scraped, current_url, page_url,
                   validated_items, product_elements, idx, raised, result,
                   calls, served>>

\* the pagination limit check: break
StopAtLimit ==
    /\ pc = "loop"
    /\ LoopContinues(current_url)
    /\ LimitReached(config, pages_scraped)
    /\ pc' = "finally"
    /\ UNCHANGED <<config, env, browserVars, normVars, mainVars, monitorVars, items, total_attempted,
                   total_succeeded, pages_scraped, current_url, page_url,
                   validated_items, product_elements, idx, raised, result,
                   calls, served>>

\* await self.browser.navigate(page, current_url) succeeds;
\* self._pages_scraped += 1
Navigate ==
    /\ pc = "loop"
    /\ LoopContinues(current_url)
    /\ ~LimitReached(config, pages_scraped)
    /\ pages_scraped < env.max_pages
    /\ \E goto \in GotoOutcomes :
          /\ BrowserNavigate(goto, current_url) = <<>>
          /\ served' = Append(served, [found |-> 0, valid |-> <<>>,
                                       fetched |-> GotoSucceeded(goto),
                                       next |-> "not_asked"])
    /\ calls' = Bump(calls, "navigate")
    /\ page_url' = current_url
    /\ pages_scraped' = pages_scraped + 1
    /\ pc' = "page"
    /\ UNCHANGED <<config, env, browserVars, normVars, mainVars, monitorVars, items, total_attempted,
                   total_succeeded, current_url, validated_items,
                   product_elements, idx, raised, result>>

\* navigate raises NavigationError (no response, HTTP >= 400, timeout, other)
NavigateFails ==
    /\ pc = "loop"
    /\ LoopContinues(current_url)
    /\ ~LimitReached(config, pages_scraped)
    /\ pages_scraped < env.max_pages
    /\ calls' = Bump(calls, "navigate")
    /\ \E goto \in GotoOutcomes :
          /\ BrowserNavigate(goto, current_url) # <<>>
          /\ raised' = BrowserNavigate(goto, current_url)
    /\ pc' = "finally"
    /\ UNCHANGED <<config, env, browserVars, normVars, mainVars, monitorVars, items, total_attempted,
                   total_succeeded, pages_scraped, current_url, page_url,
                   validated_items, product_elements, idx, result, served>>

\* extract_items_from_page: start_batch(page.url), validated_items = []
BeginPage ==
    /\ pc = "page"
    /\ monitor' = StartBatch(monitor, page_url)
    /\ tally' = TallyBatch(tally, page_url)
    /\ calls' = Bump(calls, "start_batch")
    /\ validated_items' = <<>>
    /\ product_elements' = 0
    /\ idx' = 0
    /\ verdict' = "none"
    /\ pc' = "wait"
    /\ UNCHANGED <<config, env, browserVars, normVars, mainVars, items, total_attempted,
                   total_succeeded, pages_scraped, current_url, page_url,
                   raised, result, served>>

\* wait_for_content returned True; page.locator(container_selector).all()
LocateElements ==
    /\ pc = "wait"
    /\ \E n \in 0 .. env.max_cands :
          /\ product_elements' = n
          /\ served' = [served EXCEPT ![Len(served)].found = n]
    /\ pc' = "items"
    /\ UNCHANGED <<config, env, browserVars, normVars, mainVars, monitorVars, items, total_attempted,
                   total_succeeded, pages_scraped, current_url, page_url,
                   validated_items, idx, raised, result, calls>>

\* one iteration of: for idx, element in enumerate(product_elements)
ProcessItem ==
    /\ pc = "items"
    /\ idx < product_elements
    /\ \E kind \in Kinds :
          LET item == ExtractSingleItem(kind, pages_scraped, idx + 1)
              ok == item # <<>>
              counters == RecordAttempt(<<total_attempted, total_succeeded>>, ok)
          IN  /\ validated_items' = validated_items \o item
              /\ monitor' = IF ok THEN RecordSuccess(monitor)
                                  ELSE RecordFailure(monitor)
              /\ tally' = IF ok THEN TallySuccess(tally) ELSE TallyFailure(tally)
              /\ total_attempted' = counters[1]
              /\ total_succeeded' = counters[2]
              /\ served' = [served EXCEPT ![Len(served)].valid = Append(@, kind = "ok")]
              /\ idx' = NextIndex(idx, product_elements, ok)
    /\ UNCHANGED <<config, env, browserVars, normVars, mainVars, verdict, pc, items, pages_scraped, current_url,
                   page_url, product_elements, raised, result, calls>>

\* the end of extract_items_from_page and its return into extract():
\* monitor.evaluate_batch(), then self._items.extend(page_items), or the
\* LayoutShiftError leaving both functions.  `timeout` is wait_for_content
\* returning False, where evaluate_batch is called before any element is read.
FinishPage(timeout) ==
    LET err == EvaluateBatch(monitor, config)
    IN  /\ verdict' = Verdict(err)
        /\ calls' = Bump(calls, "evaluate_batch")
        /\ raised' = err
        /\ items' = ExtendItems(items, IF timeout THEN <<>> ELSE validated_items, err)
        /\ pc' = AfterPage(err)
        /\ monitor' = MonitorAfterEvaluate(monitor, config)
        /\ UNCHANGED <<config, env, browserVars, normVars, mainVars, tally, total_attempted,
                       total_succeeded, pages_scraped, current_url, page_url,
                       validated_items, product_elements, idx, result, served>>

ContentTimeout ==
    /\ pc = "wait"
    /\ FinishPage(TRUE)

EvaluatePage ==
    /\ pc = "items"
    /\ idx = product_elements
    /\ FinishPage(FALSE)

\* current_url = await self.get_next_page_url(page), then the rotation check
GetNextPage ==
    /\ pc = "next_page"
    /\ \E found \in Urls \cup {"no_button", "no_href", "exception"} :
          /\ current_url' = NextPageUrl(found)
          /\ served' = [served EXCEPT ![Len(served)].next = found]
    /\ calls' = Bump(calls, "get_next_page_url")
    /\ pc' = IF RotationDue(pages_scraped) THEN "rotate" ELSE "loop"
    /\ UNCHANGED <<config, env, browserVars, normVars, mainVars, monitorVars, items, total_attempted,
                   total_succeeded, pages_scraped, page_url, validated_items,
                   product_elements, idx, raised, result>>

\* self.browser.rotate_user_agent(): a user-agent drawn from the pool
\* replaces the manager's current one
RotateUserAgent ==
    /\ pc = "rotate"
    /\ \E agent \in UserAgents :
          manager' = SelectUserAgent(manager, agent)
    /\ calls' = Bump(calls, "rotate_user_agent")
    /\ pc' = "loop"
    /\ UNCHANGED <<config, env, create, closes, normVars, mainVars, monitorVars,
                   items, total_attempted, total_succeeded, pages_scraped,
                   current_url, page_url, validated_items, product_elements,
                   idx, raised, result, served>>

\* finally: await page.close(); then the exception propagates, or the
\* ExtractionResult is built and returned
Finish ==
    /\ pc = "finally"
    /\ calls' = PageClose(calls, raised)
    /\ result' = IF raised = <<>>
                 THEN << MakeResult(items, total_attempted, total_succeeded,
                                    pages_scraped) >>
                 ELSE <<>>
    /\ pc' = "done"
    /\ UNCHANGED <<config, env, browserVars, normVars, mainVars, monitorVars, items, total_attempted,
                   total_succeeded, pages_scraped, current_url, page_url,
                   validated_items, product_elements, idx, raised, served>>

Next ==
    \/ ExtractBegin
    \/ PaginationExhausted
    \/ StopAtLimit
    \/ Navigate
    \/ NavigateFails
    \/ BeginPage
    \/ LocateElements
    \/ ContentTimeout
    \/ ProcessItem
    \/ EvaluatePage
    \/ GetNextPage
    \/ RotateUserAgent
    \/ Finish

Spec == Init /\ [][Next]_vars

\* every collaborator call returns: a run that can take a step takes one
FairSpec == Spec /\ WF_vars(Next)

\* extract() called twice on one BookScraper
InitRerun ==
    /\ env \in RerunEnvs
    /\ config \in [ watchdog_failure_threshold : Thresholds,
                    pagination_limit : 0 .. env.max_pages ]
    /\ InitMonitor
    /\ InitLoop
    /\ InitLibrary

SpecRerun == InitRerun /\ [][Next]_vars

\* sources long enough for the user-agent to be rotated: one of a page more
\* than the rotation period with an element on each page, one of two periods
\* on which no element is found
RotationEnvs ==
    { [max_pages |-> RotationPeriod + 1, max_cands |-> 1, max_runs |-> 1],
      [max_pages |-> 2 * RotationPeriod, max_cands |-> 0, max_runs |-> 1] }

InitRotation ==
    /\ env \in RotationEnvs
    /\ config \in [ watchdog_failure_threshold : {50},
                    pagination_limit : {0, RotationPeriod, RotationPeriod + 1} ]
    /\ InitMonitor
    /\ InitLoop
    /\ InitLibrary

SpecRotation == InitRotation /\ [][Next]_vars

\* ------------------------------------------------------------- main.py
\* the source main() is run against: one page of the small source
MainEnvs == { [max_pages |-> 1, max_cands |-> MaxCandidates, max_runs |-> 1] }

\* the classes of src/exceptions.py that derive from MarketPulseError
MarketPulseErrors ==
    { "ConfigValidationError", "BrowserInitializationError", "NavigationError",
      "ExtractionError", "SelectorNotFoundError", "LayoutShiftError",
      "RateLimitError", "SessionExpiredError", "ReportGenerationError",
      "LoggingInitializationError" }

Exception(type) == << [type |-> type] >>

\* mutant: the isinstance tests taken in the other order, the base class first
HandleFatalErrorBaseFirst(exc) ==
    IF exc.type \in MarketPulseErrors THEN 1
    ELSE IF exc.type = "LayoutShiftError" THEN 2
    ELSE 1

\* _handle_fatal_error: the code passed to sys.exit
HandleFatalError(exc) ==
    IF exc.type = "LayoutShiftError" THEN 2
    ELSE IF exc.type \in MarketPulseErrors THEN 1
    ELSE 1

\* step 4 of main(): what the process ends with once asyncio.run is over,
\* given what _run_pipeline raised (<<>>: it returned 0)
MainExit(err) ==
    IF err = <<>> THEN 0
    ELSE IF err[1].type = "KeyboardInterrupt" THEN 130
    ELSE HandleFatalError(err[1])

\* _run_pipeline has no except clause, and BrowserManager.create's finally
\* (_cleanup) swallows its own errors: an exception raised inside the
\* `async with` block leaves _run_pipeline as it is
RunPipelineRaises(err) == err

InitMain ==
    /\ env \in MainEnvs
    /\ config \in [ watchdog_failure_threshold : Thresholds,
                    pagination_limit : 0 .. env.max_pages ]
    /\ InitMonitor
    /\ InitLoop
    /\ main_pc = "config"
    /\ fatal = <<>>
    /\ exit_code = <<>>
    /\ InitNoValue
    /\ manager = NewManager("agent-1")
    /\ create = [pc |-> "new", raised |-> <<>>, in_except |-> FALSE]
    /\ closes = <<>>

\* steps 1-3 of main(): get_config, configure_logging and
\* _validate_startup_requirements each end the process with 1 on failure
MainStartup ==
    /\ main_pc \in {"config", "logging", "startup"}
    /\ \E ok \in BOOLEAN :
          IF ok
          THEN /\ main_pc' = CASE main_pc = "config" -> "logging"
                               [] main_pc = "logging" -> "startup"
                               [] OTHER -> "browser"
               /\ UNCHANGED <<fatal, exit_code>>
          ELSE /\ main_pc' = "exited"
               /\ fatal' = CASE main_pc = "config" -> Exception("ConfigValidationError")
                             [] main_pc = "logging" -> Exception("LoggingInitializationError")
                             [] OTHER -> Exception("OSError")
               /\ exit_code' = <<1>>
    /\ UNCHANGED <<config, env, browserVars, normVars, monitorVars, loopVars>>

\* async with BrowserManager.create(config): _initialize, then BookScraper(...);
\* a failed _initialize has cleaned up before BrowserInitializationError leaves
BrowserCreate ==
    /\ main_pc = "browser"
    /\ \E ok \in BOOLEAN :
          IF ok
          THEN /\ main_pc' = "extract"
               /\ fatal' = fatal
               /\ manager' = InitializedManager(manager.current_user_agent)
               /\ create' = [create EXCEPT !.pc = "yielded"]
          ELSE /\ main_pc' = "handler"
               /\ fatal' = RunPipelineRaises(Exception("BrowserInitializationError"))
               /\ manager' = Cleanup(manager)
               /\ create' = LeaveCreate(create, Exception("BrowserInitializationError"))
    /\ UNCHANGED <<config, env, closes, normVars, monitorVars, loopVars, exit_code>>

\* BrowserManager.create's finally clause as the `async with` block is left
\* with `err` propagating (<<>>: normally)
ExitBlock(err) ==
    /\ manager' = Cleanup(manager)
    /\ closes' = closes \o CleanupCalls(manager)
    /\ create' = LeaveCreate(create, err)

\* result = await scraper.extract(): the steps of extract()
PipelineExtract ==
    /\ main_pc = "extract"
    /\ Next

\* extract() is over: its result goes on to save_state, its exception out of
\* the `async with` block
ExtractLeaves ==
    /\ main_pc = "extract"
    /\ pc = "done"
    /\ fatal' = RunPipelineRaises(raised)
    /\ main_pc' = IF raised = <<>> THEN "save_state" ELSE "handler"
    /\ IF raised = <<>> THEN UNCHANGED browserVars ELSE ExitBlock(raised)
    /\ UNCHANGED <<config, env, normVars, monitorVars, loopVars, exit_code>>

\* await browser.save_state(): SessionExpiredError without a context, or
\* whatever storage_state raised
SaveState ==
    /\ main_pc = "save_state"
    /\ \E err \in {<<>>, Exception("SessionExpiredError"), Exception("Exception")} :
          /\ fatal' = RunPipelineRaises(err)
          /\ main_pc' = IF err = <<>> THEN "report" ELSE "handler"
          /\ ExitBlock(err)
    /\ UNCHANGED <<config, env, normVars, monitorVars, loopVars, exit_code>>

\* phase 3: reports are generated only if items were extracted; return 0
GenerateReports ==
    /\ main_pc = "report"
    /\ \E err \in {<<>>, Exception("ReportGenerationError")} :
          /\ err # <<>> => Len(result[1].items) > 0
          /\ fatal' = RunPipelineRaises(err)
    /\ main_pc' = "handler"
    /\ UNCHANGED <<config, env, browserVars, normVars, monitorVars, loopVars, exit_code>>

\* Ctrl+C while asyncio.run is running: the pipeline task is cancelled (inside
\* the `async with` block the finally clause of create runs) and
\* KeyboardInterrupt leaves asyncio.run
KeyboardInterrupt ==
    /\ main_pc \in {"browser", "extract", "save_state", "report"}
    /\ fatal' = Exception("KeyboardInterrupt")
    /\ main_pc' = "handler"
    /\ IF create.pc = "yielded"
       THEN ExitBlock(Exception("CancelledError"))
       ELSE UNCHANGED browserVars
    /\ UNCHANGED <<config, env, normVars, monitorVars, loopVars, exit_code>>

\* return exit_code / return 130 / _handle_fatal_error(exc)
MainEnds ==
    /\ main_pc = "handler"
    /\ exit_code' = << MainExit(fatal) >>
    /\ main_pc' = "exited"
    /\ UNCHANGED <<config, env, browserVars, normVars, monitorVars, loopVars, fatal>>

NextMain ==
    \/ MainStartup
    \/ BrowserCreate
    \/ PipelineExtract
    \/ ExtractLeaves
    \/ SaveState
    \/ GenerateReports
    \/ KeyboardInterrupt
    \/ MainEnds

SpecMain == InitMain /\ [][NextMain]_vars

\* ------------------------------------- BrowserManager.create, step by step
InitBrowser ==
    /\ env \in MainEnvs
    /\ config \in [ watchdog_failure_threshold : {30}, pagination_limit : {0} ]
    /\ InitMonitor
    /\ InitLoop
    /\ main_pc = "library"
    /\ fatal = <<>>
    /\ exit_code = <<>>
    /\ InitNoValue
    /\ manager \in { NewManager(agent) : agent \in UserAgents }
    /\ create = [pc |-> "new", raised |-> <<>>, in_except |-> FALSE]
    /\ closes = <<>>

\* _initialize fails at the step it is at: control enters its except clause,
\* whose first statement is _cleanup
InitializeFails(c) == [c EXCEPT !.pc = "close_context", !.in_except = TRUE]

\* self._playwright = await async_playwright().start()
StartPlaywright ==
    /\ create.pc = "new"
    /\ \E ok \in BOOLEAN :
          IF ok
          THEN /\ manager' = [manager EXCEPT !.playwright = "Playwright"]
               /\ create' = [create EXCEPT !.pc = "launch"]
          ELSE /\ manager' = manager
               /\ create' = InitializeFails(create)
    /\ UNCHANGED <<config, env, closes, normVars, mainVars, monitorVars, loopVars>>

\* self._browser = await self._playwright.chromium.launch(...)
LaunchBrowser ==
    /\ create.pc = "launch"
    /\ \E ok \in BOOLEAN :
          IF ok
          THEN /\ manager' = [manager EXCEPT !.browser = "Browser"]
               /\ create' = [create EXCEPT !.pc = "context"]
          ELSE /\ manager' = manager
               /\ create' = InitializeFails(create)
    /\ UNCHANGED <<config, env, closes, normVars, mainVars, monitorVars, loopVars>>

\* _create_stealth_context: new_context may fail, leaving no context, and
\* _inject_stealth_scripts may fail once self._context is assigned;
\* when both return, _initialize returns and create yields the instance
CreateStealthContext ==
    /\ create.pc = "context"
    /\ \E outcome \in {"ok", "new_context_failed", "init_script_failed"} :
          /\ manager' = IF outcome = "new_context_failed"
                         THEN manager
                         ELSE [manager EXCEPT !.context = "BrowserContext"]
          /\ create' = IF outcome = "ok"
                        THEN [create EXCEPT !.pc = "yielded"]
                        ELSE InitializeFails(create)
    /\ UNCHANGED <<config, env, closes, normVars, mainVars, monitorVars, loopVars>>

\* the body of the `async with` block ends, normally or with an exception
\* thrown into the generator at its yield: the finally clause runs
BodyEnds ==
    /\ create.pc = "yielded"
    /\ \E err \in {<<>>, Exception("LayoutShiftError"), Exception("Exception")} :
          create' = [create EXCEPT !.pc = "close_context", !.raised = err]
    /\ UNCHANGED <<config, env, manager, closes, normVars, mainVars, monitorVars,
                   loopVars>>

\* one `if handle is not None: try close() except Exception: log; handle = None`
\* of _cleanup, going on to position `next`
CloseResource(name, next) ==
    /\ IF manager[name] # None
       THEN \E failed \in BOOLEAN :
               /\ closes' = closes \o CloseCall(name, failed)
               /\ manager' = CloseHandle(manager, name, failed)
       ELSE UNCHANGED <<manager, closes>>
    /\ create' = [create EXCEPT !.pc = next]
    /\ UNCHANGED <<config, env, normVars, mainVars, monitorVars, loopVars>>

CloseContext ==
    /\ create.pc = "close_context"
    /\ CloseResource("context", "close_browser")

CloseBrowser ==
    /\ create.pc = "close_browser"
    /\ CloseResource("browser", "stop_playwright")

\* the last step of _cleanup; control goes back to the except clause of
\* _initialize or leaves create
StopPlaywright ==
    /\ create.pc = "stop_playwright"
    /\ CloseResource("playwright", IF create.in_except THEN "reraise" ELSE "left")

\* raise BrowserInitializationError(...) from exc: out of _initialize and
\* through the finally clause of create
RaiseInitializationError ==
    /\ create.pc = "reraise"
    /\ create' = [pc |-> "close_context",
                  raised |-> Exception("BrowserInitializationError"),
                  in_except |-> FALSE]
    /\ UNCHANGED <<config, env, manager, closes, normVars, mainVars, monitorVars,
                   loopVars>>

NextBrowser ==
    \/ StartPlaywright
    \/ LaunchBrowser
    \/ CreateStealthContext
    \/ BodyEnds
    \/ CloseContext
    \/ CloseBrowser
    \/ StopPlaywright
    \/ RaiseInitializationError

SpecBrowser == InitBrowser /\ [][NextBrowser]_vars

\* ------------------------------------------ field normalizers (validator.py)
\* Raw texts are strings; the normalizers work on them character by character.
UpperCase == "ABCDEFGHIJKLMNOPQRSTUVWXYZ"
LowerCase == "abcdefghijklmnopqrstuvwxyz"
Digits == "0123456789"
Whitespace == {" ", "\t", "\n"}

CharAt(s, i) == SubSeq(s, i, i)

\* the position of the one-character string c in alphabet, 0 if absent
IndexIn(alphabet, c) ==
    IF \E i \in 1 .. Len(alphabet) : CharAt(alphabet, i) = c
    THEN CHOOSE i \in 1 .. Len(alphabet) : CharAt(alphabet, i) = c
    ELSE 0

RECURSIVE Lower(_)
\* str.lower()
Lower(s) ==
    IF s = "" THEN ""
    ELSE LET c == CharAt(s, 1)
             k == IndexIn(UpperCase, c)
         IN  (IF k = 0 THEN c ELSE CharAt(LowerCase, k)) \o Lower(Tail(s))

RECURSIVE LStrip(_)
LStrip(s) ==
    IF s # "" /\ CharAt(s, 1) \in Whitespace THEN LStrip(Tail(s)) ELSE s

RECURSIVE RStrip(_)
RStrip(s) ==
    IF s # "" /\ CharAt(s, Len(s)) \in Whitespace
    THEN RStrip(SubSeq(s, 1, Len(s) - 1))
    ELSE s

\* str.strip()
Strip(s) == RStrip(LStrip(s))

\* the positions at which sub occurs in s
Occurrences(s, sub) ==
    { i \in 1 .. (Len(s) - Len(sub) + 1) : SubSeq(s, i, i + Len(sub) - 1) = sub }

\* sub in s
Contains(s, sub) == Occurrences(s, sub) # {}

\* the indicator lists of parse_stock, in the order the code tries them
InStockIndicators == << "in stock", "available", "in_stock", "instock" >>
OutOfStockIndicators == << "out of stock", "unavailable", "sold out", "out_of_stock" >>

ContainsAny(s, indicators) ==
    \E k \in 1 .. Len(indicators) : Contains(s, indicators[k])

\* parse_stock on a str: the in-stock indicators are looked for first, then
\* the out-of-stock ones; other text is available unless empty
ParseStock(v) ==
    LET value_lower == Strip(Lower(v))
    IN  IF ContainsAny(value_lower, InStockIndicators) THEN TRUE
        ELSE IF ContainsAny(value_lower, OutOfStockIndicators) THEN FALSE
        ELSE value_lower # ""

\* word_to_num, in insertion order: the word at position k stands for k
WordToNum == << "one", "two", "three", "four", "five" >>

\* int(value) succeeds: digits, possibly surrounded by whitespace (signs and
\* underscores do not occur in the raw texts drawn here)
IsNumeric(v) ==
    LET t == Strip(v)
    IN  t # "" /\ \A i \in 1 .. Len(t) : IndexIn(Digits, CharAt(t, i)) # 0

RECURSIVE DecimalValue(_)
DecimalValue(t) ==
    IF t = "" THEN 0
    ELSE 10 * DecimalValue(SubSeq(t, 1, Len(t) - 1))
         + (IndexIn(Digits, CharAt(t, Len(t))) - 1)

\* parse_rating on a str: int(value) first, then the first word of
\* word_to_num, in the dictionary's order, that the lower-cased text contains;
\* ValueError otherwise
ParseRating(v) ==
    IF IsNumeric(v)
    THEN [ok |-> TRUE, rating |-> DecimalValue(Strip(v))]
    ELSE LET value_lower == Strip(Lower(v))
             found == { k \in 1 .. Len(WordToNum) : Contains(value_lower, WordToNum[k]) }
         IN  IF found # {}
             THEN [ok |-> TRUE, rating |-> CHOOSE k \in found : \A j \in found : k <= j]
             ELSE [ok |-> FALSE, rating |-> 0]

\* ---- parse_price
CurrencyAndSpace == {"£", "$", "€", "¥", "₹"} \cup Whitespace

RECURSIVE RemoveChars(_, _)
\* re.sub(r"[...]", "", s): s without the characters of the set
RemoveChars(s, chars) ==
    IF s = "" THEN ""
    ELSE IF Len(s) = 1 THEN (IF s \in chars THEN "" ELSE s)
    ELSE RemoveChars(SubSeq(s, 1, Len(s) \div 2), chars)
         \o RemoveChars(SubSeq(s, Len(s) \div 2 + 1, Len(s)), chars)

RECURSIVE Replace(_, _, _)
\* s.replace(old, new) for a one-character old
Replace(s, old, new) ==
    IF s = "" THEN ""
    ELSE IF Len(s) = 1 THEN (IF s = old THEN new ELSE s)
    ELSE Replace(SubSeq(s, 1, Len(s) \div 2), old, new)
         \o Replace(SubSeq(s, Len(s) \div 2 + 1, Len(s)), old, new)

\* s.rfind(c): the 0-based index of the last c, -1 if there is none
RFind(s, c) ==
    IF Contains(s, c)
    THEN (CHOOSE i \in Occurrences(s, c) : \A j \in Occurrences(s, c) : j <= i) - 1
    ELSE -1

NotAFloat == [kind |-> "error", neg |-> FALSE, num |-> 0, scale |-> 0]

\* float(s) on the texts drawn here: an optional sign, then inf / infinity /
\* nan in any letter case, or digits with at most one point and at least one
\* digit; the value is (-1)^neg * num / 10^scale.  (Exponents, underscores and
\* non-ASCII digits do not occur in the texts drawn.)
FloatOf(s) ==
    LET signed == s # "" /\ CharAt(s, 1) \in {"+", "-"}
        neg == s # "" /\ CharAt(s, 1) = "-"
        body == IF signed THEN Tail(s) ELSE s
        digits == RemoveChars(body, {"."})
    IN  IF Lower(body) \in {"inf", "infinity"}
        THEN [kind |-> "inf", neg |-> neg, num |-> 0, scale |-> 0]
        ELSE IF Lower(body) = "nan"
        THEN [kind |-> "nan", neg |-> neg, num |-> 0, scale |-> 0]
        ELSE IF /\ digits # ""
                /\ \A i \in 1 .. Len(digits) : IndexIn(Digits, CharAt(digits, i)) # 0
                /\ Len(body) - Len(digits) <= 1
        THEN [kind |-> "finite", neg |-> neg, num |-> DecimalValue(digits),
              scale |-> IF Contains(body, ".") THEN Len(body) - RFind(body, ".") - 1
                        ELSE 0]
        ELSE NotAFloat

\* the separator handling of parse_price
CleanSeparators(cleaned) ==
    IF Contains(cleaned, ",") /\ ~Contains(cleaned, ".")
    THEN Replace(cleaned, ",", ".")
    ELSE IF Contains(cleaned, ",") /\ Contains(cleaned, ".")
    THEN IF RFind(cleaned, ",") > RFind(cleaned, ".")
         THEN Replace(Replace(cleaned, ".", ""), ",", ".")
         ELSE Replace(cleaned, ",", "")
    ELSE cleaned

\* parse_price on a str
ParsePrice(v) ==
    FloatOf(CleanSeparators(RemoveChars(Strip(v), CurrencyAndSpace)))

\* price: float = Field(..., ge=0.0): x >= 0.0 (false for nan, true for -0.0)
GeZero(f) ==
    \/ f.kind = "finite" /\ (~f.neg \/ f.num = 0)
    \/ f.kind = "inf" /\ ~f.neg

\* the price field of ProductSchema: the validator, then the constraint
PriceField(v) ==
    LET f == ParsePrice(v)
    IN  [ok |-> f.kind # "error" /\ GeZero(f), kind |-> f.kind, neg |-> f.neg,
         num |-> f.num, scale |-> f.scale]

\* price texts: an optional prefix, then groups of digits around separators,
\* or a word
PricePrefixes == {"", "$", "£", "-", "$-", " € "}
PriceWords == {"", "Free", "TBD", "abc", "inf", "Infinity"}

PriceNumerals ==
    { a \o s1 \o b \o s2 \o c :
        a \in {"", "1", "12"}, s1 \in {"", ",", "."}, b \in {"", "234"},
        s2 \in {"", ",", "."}, c \in {"", "5", "56"} }

PriceTexts ==
    { pre \o body : pre \in PricePrefixes, body \in PriceNumerals \cup PriceWords }

\* ---- clean_title
TitleMaxLength == 500           \* title: Field(max_length=500)

RECURSIVE SplitWords(_)
\* str.split(): the maximal runs of non-whitespace characters, in order
SplitWords(s) ==
    LET t == LStrip(s)
        ends == { i \in 1 .. Len(t) : CharAt(t, i) \in Whitespace }
        n == IF ends = {} THEN Len(t)
             ELSE (CHOOSE i \in ends : \A j \in ends : i <= j) - 1
    IN  IF t = "" THEN <<>>
        ELSE << SubSeq(t, 1, n) >> \o SplitWords(SubSeq(t, n + 1, Len(t)))

RECURSIVE JoinWords(_, _)
\* sep.join(words)
JoinWords(sep, words) ==
    IF words = <<>> THEN ""
    ELSE IF Len(words) = 1 THEN words[1]
    ELSE words[1] \o sep \o JoinWords(sep, Tail(words))

\* mutant: the title is stripped, its inner whitespace kept
CleanTitleStripOnly(v) ==
    [ok |-> Strip(v) # "", text |-> Strip(v)]

\* clean_title on a str: " ".join(value.split()), ValueError if empty
CleanTitle(v) ==
    LET cleaned == JoinWords(" ", SplitWords(v))
    IN  [ok |-> cleaned # "", text |-> cleaned]

\* the title field of ProductSchema: the validator, then min_length=1 and
\* max_length=500 on what it returned
TitleField(v) ==
    LET t == CleanTitle(v)
    IN  [ok |-> t.ok /\ Len(t.text) >= 1 /\ Len(t.text) <= TitleMaxLength,
         text |-> t.text]

TitleGaps == {"", " ", "  ", "\t", " \n "}
TitleWords == {"", "A", "Tale", "of"}

TitleTexts ==
    { g1 \o w1 \o g2 \o w2 \o g3 :
        g1 \in TitleGaps, g2 \in TitleGaps, g3 \in TitleGaps,
        w1 \in TitleWords, w2 \in TitleWords }

\* the pieces raw texts are made of
Pieces ==
    { "In stock", "in stock", "Available", "available", "Out of stock",
      "OUT OF STOCK", "Sold Out", "sold out", "Unavailable", "unavailable",
      "instock", "out_of_stock", "ships soon", "", " ",
      "One", "two", "Three", "four", "FIVE", "star-rating", "3", "12" }

RECURSIVE JoinPieces(_)
JoinPieces(ps) ==
    IF ps = <<>> THEN ""
    ELSE IF Len(ps) = 1 THEN ps[1]
    ELSE ps[1] \o " " \o JoinPieces(Tail(ps))

\* every text of one to MaxWords pieces, joined by single spaces
RawTexts ==
    { JoinPieces(ps) : ps \in UNION { [1 .. n -> Pieces] : n \in 1 .. MaxWords } }

InitNormalize ==
    /\ env \in MainEnvs
    /\ config \in [ watchdog_failure_threshold : {30}, pagination_limit : {0} ]
    /\ InitMonitor
    /\ InitLoop
    /\ main_pc = "library"
    /\ fatal = <<>>
    /\ exit_code = <<>>
    /\ value \in RawTexts \cup PriceTexts \cup TitleTexts
    /\ stock = <<>>
    /\ rating = <<>>
    /\ price = <<>>
    /\ title = <<>>
    /\ candidate = <<>>
    /\ InitYielded

\* the drawn text has not been handed to a field yet
NotNormalized ==
    /\ stock = <<>>
    /\ rating = <<>>
    /\ price = <<>>
    /\ title = <<>>

CallParseStock ==
    /\ NotNormalized
    /\ stock' = << ParseStock(value) >>
    /\ UNCHANGED <<config, env, browserVars, monitorVars, loopVars, mainVars, candidate, value, rating,
                   price, title>>

CallParseRating ==
    /\ NotNormalized
    /\ rating' = << ParseRating(value) >>
    /\ UNCHANGED <<config, env, browserVars, monitorVars, loopVars, mainVars, candidate, value, stock,
                   price, title>>

\* ProductSchema(price=value, ...): parse_price, then the field's ge=0.0
CallParsePrice ==
    /\ NotNormalized
    /\ price' = << PriceField(value) >>
    /\ UNCHANGED <<config, env, browserVars, monitorVars, loopVars, mainVars, candidate, value, stock,
                   rating, title>>

\* ProductSchema(title=value, ...): clean_title, then the length constraints
CallCleanTitle ==
    /\ NotNormalized
    /\ title' = << TitleField(value) >>
    /\ UNCHANGED <<config, env, browserVars, monitorVars, loopVars, mainVars, candidate, value, stock,
                   rating, price>>

NextNormalize ==
    \/ CallParseStock
    \/ CallParseRating
    \/ CallParsePrice
    \/ CallCleanTitle

SpecNormalize == InitNormalize /\ [][NextNormalize]_vars

\* the title validator alone, on the title texts
InitTitle ==
    /\ env \in MainEnvs
    /\ config \in [ watchdog_failure_threshold : {30}, pagination_limit : {0} ]
    /\ InitMonitor
    /\ InitLoop
    /\ main_pc = "library"
    /\ fatal = <<>>
    /\ exit_code = <<>>
    /\ value \in TitleTexts
    /\ stock = <<>>
    /\ rating = <<>>
    /\ price = <<>>
    /\ title = <<>>
    /\ candidate = <<>>
    /\ InitYielded

SpecTitle == InitTitle /\ [][CallCleanTitle]_vars

\* ------------------------------------------- ProductSchema construction
RatingMin == 1                  \* rating: Field(ge=1)
RatingMax == 5                  \* rating: Field(le=5)

IntRating(n) == [type |-> "int", int |-> n, str |-> ""]
StrRating(t) == [type |-> "str", int |-> 0, str |-> t]

\* parse_rating on an int or a str
ParseRatingValue(raw) ==
    IF raw.type = "int" THEN [ok |-> TRUE, rating |-> raw.int]
    ELSE ParseRating(raw.str)

\* the rating field: the validator, then ge=1 and le=5 on what it returned
RatingField(raw) ==
    LET r == ParseRatingValue(raw)
    IN  [ok |-> r.ok /\ r.rating >= RatingMin /\ r.rating <= RatingMax,
         rating |-> r.rating]

\* the stock field: parse_stock never fails on a str
StockField(v) == [ok |-> TRUE, stock |-> ParseStock(v)]

HasPrefix(t, pre) == Len(t) >= Len(pre) /\ SubSeq(t, 1, Len(pre)) = pre

\* the url field (HttpUrl): an http or https URL with a host
UrlField(u) ==
    [ok |-> \/ HasPrefix(u, "http://") /\ Len(u) > Len("http://")
            \/ HasPrefix(u, "https://") /\ Len(u) > Len("https://"),
     url |-> u]

\* mutant: the rating is taken as parsed, without the range constraint
ProductSchemaUnconstrainedRating(c) ==
    LET t == TitleField(c.title)
        p == PriceField(c.price)
        st == StockField(c.stock)
        r == ParseRatingValue(c.rating)
        u == UrlField(c.url)
    IN  IF t.ok /\ p.ok /\ st.ok /\ r.ok /\ u.ok
        THEN << [title |-> t.text, price |-> p, stock |-> st.stock,
                 rating |-> r.rating, url |-> u.url] >>
        ELSE <<>>

\* ProductSchema(**raw_data): <<record>>, or <<>> for ValidationError
ProductSchema(c) ==
    LET t == TitleField(c.title)
        p == PriceField(c.price)
        st == StockField(c.stock)
        r == RatingField(c.rating)
        u == UrlField(c.url)
    IN  IF t.ok /\ p.ok /\ st.ok /\ r.ok /\ u.ok
        THEN << [title |-> t.text, price |-> p, stock |-> st.stock,
                 rating |-> r.rating, url |-> u.url] >>
        ELSE <<>>

\* _extract_single_item on raw fields: an exception while the element is
\* read and a ValidationError both give None
ExtractSingleCandidate(c) ==
    IF c.raises THEN <<>> ELSE ProductSchema(c)

RECURSIVE Repeat(_, _)
Repeat(t, n) ==
    IF n = 0 THEN ""
    ELSE Repeat(t, n \div 2) \o Repeat(t, n \div 2) \o (IF n % 2 = 1 THEN t ELSE "")

\* the raw fields candidates are drawn from
CandidateTitles == {" A  Tale ", " \t", Repeat("x", TitleMaxLength + 1)}
CandidatePrices == {"£51.77", "Free", "$-5.00"}
CandidateStocks == {"In stock"}
CandidateRatings ==
    { IntRating(3), IntRating(0), IntRating(6), StrRating("0"), StrRating("6"),
      StrRating("star-rating Three"), StrRating("star-rating") }
CandidateUrls == {"https://example.com/a.html", "mailto:a@example.com"}

Candidates ==
    [ title : CandidateTitles, price : CandidatePrices, stock : CandidateStocks,
      rating : CandidateRatings, url : CandidateUrls, raises : BOOLEAN ]

\* each candidate that can be drawn, paired with what _extract_single_item
\* returns for it
ExtractedItem == { <<c, ExtractSingleCandidate(c)>> : c \in Candidates }

\* extract_items_from_page after start_batch, on a page of MaxElements elements
InitSchema ==
    /\ env \in { [max_pages |-> 1, max_cands |-> MaxElements, max_runs |-> 1] }
    /\ config \in [ watchdog_failure_threshold : {30}, pagination_limit : {0} ]
    /\ monitor = StartBatch(NewMonitor, "base")
    /\ verdict = "none"
    /\ tally = TallyBatch(NoTally, "base")
    /\ pc = "items"
    /\ items = <<>>
    /\ total_attempted = 0
    /\ total_succeeded = 0
    /\ pages_scraped = 1
    /\ current_url = "base"
    /\ page_url = "base"
    /\ validated_items = <<>>
    /\ product_elements = env.max_cands
    /\ idx = 0
    /\ raised = <<>>
    /\ result = <<>>
    /\ calls = [NoCalls EXCEPT !.new_page = 1, !.navigate = 1, !.start_batch = 1]
    /\ served = <<>>
    /\ main_pc = "library"
    /\ fatal = <<>>
    /\ exit_code = <<>>
    /\ value = ""
    /\ stock = <<>>
    /\ rating = <<>>
    /\ price = <<>>
    /\ title = <<>>
    /\ candidate = <<>>
    /\ InitYielded

\* one iteration of the loop over product_elements, on drawn raw fields
ProcessCandidate ==
    /\ pc = "items"
    /\ idx < product_elements
    /\ \E drawn \in ExtractedItem :
          LET c == drawn[1]
              item == drawn[2]
              ok == item # <<>>
              counters == RecordAttempt(<<total_attempted, total_succeeded>>, ok)
          IN  /\ candidate' = <<c>>
              /\ validated_items' = validated_items \o item
              /\ monitor' = IF ok THEN RecordSuccess(monitor)
                                  ELSE RecordFailure(monitor)
              /\ tally' = IF ok THEN TallySuccess(tally) ELSE TallyFailure(tally)
              /\ total_attempted' = counters[1]
              /\ total_succeeded' = counters[2]
              /\ idx' = NextIndex(idx, product_elements, ok)
    /\ UNCHANGED <<config, env, browserVars, mainVars, verdict, pc, items, pages_scraped,
                   current_url, page_url, product_elements, raised, result,
                   calls, served, value, stock, rating, price, title>>

SpecSchema == InitSchema /\ [][ProcessCandidate]_vars

\* ================================================================ claims

\* ---- what the source delivered, read back from the ghost `served`
RECURSIVE ValidRecords(_, _, _)
\* the records of the first n candidates of page `page` that validated
ValidRecords(page, valid, n) ==
    IF n = 0 THEN <<>>
    ELSE ValidRecords(page, valid, n - 1)
            \o (IF valid[n] THEN << [page |-> page, index |-> n] >> ELSE <<>>)

RECURSIVE RecordsOfPages(_, _)
\* the validated records of pages 1..k, in page order then document order
RecordsOfPages(log, k) ==
    IF k = 0 THEN <<>>
    ELSE RecordsOfPages(log, k - 1)
            \o ValidRecords(k, log[k].valid, Len(log[k].valid))

RECURSIVE FoundOnPages(_, _)
\* the number of candidates found on pages 1..k
FoundOnPages(log, k) ==
    IF k = 0 THEN 0 ELSE FoundOnPages(log, k - 1) + log[k].found

CountValid(valid) == Cardinality({i \in 1 .. Len(valid) : valid[i]})

Halted == raised # <<>> /\ raised[1].type = "LayoutShiftError"
NavigationFailed == raised # <<>> /\ raised[1].type = "NavigationError"
Returned == result # <<>>
Threshold == config.watchdog_failure_threshold
Failures(m) == m.batch_attempts - m.batch_successes

\* C1: for a batch with attempts >= 1, evaluate_batch gives HALT if and only
\* if failures/attempts is strictly greater than the threshold; a ratio equal
\* to the threshold is PASS.  With threshold 0.30, 30 failures out of 100 pass
\* and 31 out of 100 halt.
C1_HaltIffAboveThreshold ==
    (verdict # "none" /\ monitor.batch_attempts >= 1) =>
        /\ (verdict = "HALT") <=>
              (Failures(monitor) * ThresholdDen > Threshold * monitor.batch_attempts)
        /\ (Threshold = 30 /\ monitor.batch_attempts = 100 /\ Failures(monitor) = 30)
              => verdict = "PASS"
        /\ (Threshold = 30 /\ monitor.batch_attempts = 100 /\ Failures(monitor) = 31)
              => verdict = "HALT"

C1_Witness ==
    /\ verdict = "HALT"
    /\ Threshold = 30
    /\ monitor.batch_attempts = 100
    /\ Failures(monitor) = 31

\* C2: once evaluate_batch has signalled HALT, extract() is on its way out with
\* the LayoutShiftError and returns no result; from then on there is no
\* next-page detection, no navigation, no start_batch, no rotation and no
\* further page counted.
C2_HaltStopsTheLoop ==
    [][ /\ (verdict' = "HALT" => (Halted' /\ pc' \in {"finally", "done"}))
        /\ Halted =>
              /\ Halted'
              /\ pc' \in {"finally", "done"}
              /\ result' = <<>>
              /\ calls'.get_next_page_url = calls.get_next_page_url
              /\ calls'.navigate = calls.navigate
              /\ calls'.start_batch = calls.start_batch
              /\ calls'.rotate_user_agent = calls.rotate_user_agent
              /\ pages_scraped' = pages_scraped
              /\ monitor' = monitor ]_vars

C2_Witness ==
    /\ Halted
    /\ pc = "done"
    /\ result = <<>>
    /\ pages_scraped = 2
    /\ calls.get_next_page_url = 1

\* C3: while a page's candidates are processed, the batch holds exactly one
\* outcome per candidate processed, in document order, and a failing
\* candidate does not stop the ones after it: when evaluate_batch is called
\* the batch attempts equal the number of candidates found on the page.
C3_OneOutcomePerCandidate ==
    /\ pc = "items" =>
          LET page == served[Len(served)]
          IN  /\ Len(page.valid) = idx
              /\ idx <= page.found
              /\ product_elements = page.found
              /\ monitor.batch_attempts = idx
              /\ monitor.batch_successes = CountValid(page.valid)
              /\ validated_items = ValidRecords(Len(served), page.valid, idx)
    /\ (pc = "next_page" \/ Halted) =>
          LET page == served[Len(served)]
          IN  /\ monitor.batch_attempts = page.found
              /\ Len(page.valid) = page.found
              /\ monitor.batch_successes = CountValid(page.valid)

C3_Witness ==
    /\ pc = "next_page"
    /\ verdict = "PASS"
    /\ served[Len(served)].found = 2
    /\ served[Len(served)].valid = <<FALSE, TRUE>>
    /\ monitor.batch_attempts = 2

\* C4: evaluate_batch on a batch with 0 attempts is PASS, for every threshold,
\* threshold 0 included.
C4_EmptyBatchPasses ==
    (verdict # "none" /\ monitor.batch_attempts = 0) => verdict = "PASS"

C4_Witness ==
    /\ verdict = "PASS"
    /\ monitor.batch_attempts = 0
    /\ monitor.total_attempts > 0
    /\ Threshold = 0

\* C5: after any sequence of start_batch, record_success, record_failure,
\* evaluate_batch and reset calls, 0 <= successes <= attempts for the batch and
\* for the cumulative counters, so both failure ratios are within [0, 1].
C5_SuccessesWithinAttempts ==
    /\ 0 <= monitor.batch_successes
    /\ monitor.batch_successes <= monitor.batch_attempts
    /\ 0 <= monitor.total_successes
    /\ monitor.total_successes <= monitor.total_attempts
    /\ 0 <= BatchFailureRatio(monitor)[1]
    /\ BatchFailureRatio(monitor)[1] <= BatchFailureRatio(monitor)[2]
    /\ 0 <= TotalFailureRatio(monitor)[1]
    /\ TotalFailureRatio(monitor)[1] <= TotalFailureRatio(monitor)[2]

C5_Witness ==
    /\ monitor.batch_attempts = 2
    /\ monitor.batch_successes = 1
    /\ monitor.total_attempts = 4
    /\ monitor.total_successes = 2

\* C6: the cumulative attempts are the record_success calls plus the
\* record_failure calls since construction or the last reset, the cumulative
\* successes are the record_success calls, and the batch counters are the same
\* two counts since the last start_batch.
C6_CountersCountCalls ==
    /\ monitor.total_attempts = tally.succ + tally.fail
    /\ monitor.total_successes = tally.succ
    /\ monitor.batch_attempts = tally.batch_succ + tally.batch_fail
    /\ monitor.batch_successes = tally.batch_succ

C6_Witness ==
    /\ tally.succ = 2
    /\ tally.fail = 2
    /\ tally.batch_succ = 1
    /\ tally.batch_fail = 1
    /\ monitor.total_attempts = 4

\* C7: with pagination_limit = L > 0 the pages processed never exceed L, and a
\* run that returns while the source still reports a next page has processed
\* exactly L pages and stopped at the limit check, with pages_scraped = L.
C7_LimitCapsPages ==
    config.pagination_limit > 0 =>
        /\ pages_scraped <= config.pagination_limit
        /\ calls.navigate <= config.pagination_limit
        /\ (Returned /\ current_url # None) =>
              /\ result[1].pages_scraped = config.pagination_limit
              /\ LimitReached(config, pages_scraped)
              /\ calls.get_next_page_url = config.pagination_limit

C7_Witness ==
    /\ config.pagination_limit = 2
    /\ Returned
    /\ current_url # None
    /\ result[1].pages_scraped = 2

\* C8: with pagination_limit = L > 0 every run of extract() reaches a terminal
\* state (normal return, HALT or navigation failure), whatever the source
\* reports, as long as every collaborator call returns.
C8_LimitedRunTerminates ==
    (config.pagination_limit > 0) ~>
        (pc = "done" /\ (Returned \/ Halted \/ NavigationFailed))

C8_Witness ==
    /\ config.pagination_limit = 2
    /\ pc = "done"
    /\ Returned
    /\ current_url = "base"
    /\ page_url = "next"
    /\ calls.get_next_page_url = 2

\* C9: when the run halts on page k, self._items is the concatenation, in page
\* order, of the validated records of pages 1..k-1, and holds no record of
\* page k.
C9_HaltKeepsPriorPages ==
    Halted =>
        /\ items = RecordsOfPages(served, pages_scraped - 1)
        /\ \A i \in 1 .. Len(items) : items[i].page < pages_scraped

C9_Witness ==
    /\ Halted
    /\ pages_scraped = 2
    /\ served[1].valid = <<TRUE>>
    /\ served[2].valid = <<FALSE, TRUE>>
    /\ items = << [page |-> 1, index |-> 1] >>

\* C10: the result returned by extract() has total_attempted = the candidates
\* found on the pages processed, total_succeeded = those that validated,
\* len(items) = total_succeeded, the items in page order then document order,
\* and pages_scraped = the pages fetched.  One page of 10 candidates with 3
\* malformed, under threshold 0.30, returns 7 items and 10 attempts.
C10_ResultSummarisesRun ==
    /\ Returned =>
          LET r == result[1]
          IN  /\ r.total_attempted = FoundOnPages(served, Len(served))
              /\ r.total_succeeded = Len(RecordsOfPages(served, Len(served)))
              /\ Len(r.items) = r.total_succeeded
              /\ r.items = RecordsOfPages(served, Len(served))
              /\ r.pages_scraped = Len(served)
    /\ (pc = "done" /\ ~Halted /\ ~NavigationFailed) => Returned
    /\ ( /\ pc = "done"
         /\ Threshold = 30
         /\ Len(served) = 1
         /\ served[1].found = 10
         /\ CountValid(served[1].valid) = 7 ) =>
          /\ Returned
          /\ Len(result[1].items) = 7
          /\ result[1].total_attempted = 10

C10_Witness ==
    /\ Returned
    /\ Threshold = 30
    /\ result[1].pages_scraped = 1
    /\ result[1].total_attempted = 10
    /\ Len(result[1].items) = 7

\* C11: once extract() holds its page, page.close() is called exactly once
\* before extract() returns or raises, on every exit path (exhaustion, limit,
\* HALT, navigation failure), and not before the exit.
C11_PageClosedOnceOnExit ==
    /\ pc = "done" => (calls.close = calls.new_page /\ (Returned \/ Halted \/ NavigationFailed))
    /\ pc \notin {"idle", "done"} => calls.close = calls.new_page - 1
    /\ calls.new_page <= 1
    /\ Returned => calls.close = 1

C11_Witness ==
    /\ pc = "done"
    /\ NavigationFailed
    /\ pages_scraped = 1
    /\ calls.new_page = 1
    /\ calls.close = 1

\* C12: a navigation failure (no response, status >= 400, timeout, any other
\* error of page.goto) leaves navigate as a NavigationError, propagates out of
\* extract() and is not retried: navigate is called at most once per loop
\* iteration, and the failed page is not counted and opens no batch.
C12_NavigationFailureAborts ==
    /\ \A p \in 1 .. Len(served) : served[p].fetched
    /\ Len(served) = pages_scraped
    /\ calls.navigate <= pages_scraped + 1
    /\ calls.start_batch <= pages_scraped
    /\ (raised # <<>> /\ ~Halted) <=> calls.navigate = pages_scraped + 1
    /\ NavigationFailed =>
          /\ pc \in {"finally", "done"}
          /\ result = <<>>
          /\ raised[1].url = current_url
          /\ raised[1].reason # "response" \/ raised[1].status_code >= 400
          /\ calls.start_batch = pages_scraped
          /\ calls.evaluate_batch = pages_scraped
    /\ (raised # <<>> /\ ~Halted) => NavigationFailed

C12_Witness ==
    /\ pc = "done"
    /\ NavigationFailed
    /\ raised[1].reason = "response"
    /\ raised[1].status_code = 400
    /\ raised[1].url = "next"
    /\ pages_scraped = 1
    /\ calls.navigate = 2
    /\ calls.start_batch = 1

\* C13: a Watchdog halt is distinguishable at the process boundary.  The
\* LayoutShiftError raised in extract() leaves _run_pipeline unchanged, and
\* main() ends with exit code 2 exactly when the pipeline raised
\* LayoutShiftError; every other exception gives 1, KeyboardInterrupt gives
\* 130 and a completed pipeline gives 0.
C13_HaltHasItsOwnExitCode ==
    /\ main_pc = "exited" =>
          /\ exit_code = <<2>> <=> (fatal # <<>> /\ fatal[1].type = "LayoutShiftError")
          /\ exit_code = <<130>> <=> (fatal # <<>> /\ fatal[1].type = "KeyboardInterrupt")
          /\ exit_code = <<0>> <=> fatal = <<>>
          /\ exit_code = <<1>> <=>
                (fatal # <<>> /\ fatal[1].type \notin {"LayoutShiftError", "KeyboardInterrupt"})
          /\ fatal = <<>> => (Returned /\ pc = "done")
    /\ main_pc # "exited" => exit_code = <<>>
    /\ (fatal # <<>> /\ fatal[1].type = "LayoutShiftError") => (Halted /\ fatal = raised)
    /\ (Halted /\ pc = "done" /\ main_pc \in {"handler", "exited"}) =>
          fatal[1].type \in {"LayoutShiftError", "KeyboardInterrupt"}

C13_Witness ==
    /\ main_pc = "exited"
    /\ Halted
    /\ fatal = raised
    /\ exit_code = <<2>>

\* C14: with no page limit and every batch passing, extract() walks the chain
\* of next-page links one page at a time and in order: a page is navigated to
\* only after the page before it was evaluated and asked for its successor,
\* the page navigated to is the one the last detection returned (the start URL
\* first), the loop ends only when detection returned none, and the run
\* returns pages_scraped equal to the number of pages of the chain.
C14_ExhaustionWalksTheChain ==
    /\ [](config.pagination_limit = 0 /\ Returned =>
            /\ current_url = None
            /\ pages_scraped = calls.navigate
            /\ pages_scraped = calls.get_next_page_url
            /\ pages_scraped = calls.evaluate_batch
            /\ pages_scraped = Len(served)
            /\ result[1].pages_scraped = pages_scraped)
    /\ [][config.pagination_limit = 0 =>
            /\ calls'.navigate # calls.navigate =>
                  /\ calls.get_next_page_url = calls.navigate
                  /\ calls.evaluate_batch = calls.navigate
                  /\ current_url # None
                  /\ calls.navigate = 0 => current_url = "base"
                  /\ pages_scraped' # pages_scraped =>
                        (page_url' = current_url /\ pages_scraped' = calls'.navigate)
            /\ calls'.get_next_page_url # calls.get_next_page_url =>
                  /\ verdict = "PASS"
                  /\ calls.navigate = calls.get_next_page_url + 1
                  /\ current_url = page_url
                  /\ current_url' \in Urls \cup {None}
            /\ (pc = "loop" /\ pc' = "finally" /\ raised' = <<>>) =>
                  current_url = None
         ]_vars

C14_Witness ==
    /\ config.pagination_limit = 0
    /\ Returned
    /\ pages_scraped = 2
    /\ page_url = "next"
    /\ current_url = None
    /\ calls.get_next_page_url = 2

\* C15: start_batch(url) sets both batch counters to zero, records url as the
\* current page identifier, and leaves the cumulative attempts and the
\* cumulative successes as they were.
C15_StartBatchFrame ==
    [][CallStartBatch =>
          /\ monitor'.batch_attempts = 0
          /\ monitor'.batch_successes = 0
          /\ monitor'.current_url = tally'.url
          /\ monitor'.current_url \in Urls
          /\ monitor'.total_attempts = monitor.total_attempts
          /\ monitor'.total_successes = monitor.total_successes
          /\ monitor'.total_attempts = tally.succ + tally.fail
          /\ monitor'.total_successes = tally.succ
      ]_vars

C15_Witness ==
    /\ tally.succ = 1
    /\ tally.fail = 2
    /\ tally.url = "next"
    /\ tally.batch_succ + tally.batch_fail = 0
    /\ monitor = [ batch_attempts |-> 0, batch_successes |-> 0,
                   total_attempts |-> 3, total_successes |-> 1,
                   current_url |-> "next" ]
    /\ pc = "idle"

\* C16: evaluate_batch leaves the batch counters, the cumulative counters and
\* the recorded page identifier unchanged, whether it passes, halts or finds
\* the batch empty; called again on the same state it gives the same verdict.
C16_EvaluateBatchIsARead ==
    [][CallEvaluateBatch =>
          /\ monitor' = monitor
          /\ verdict' \in {"PASS", "HALT"}
          /\ verdict \in {"PASS", "HALT"} => verdict' = verdict
          /\ verdict' = Verdict(EvaluateBatch(monitor', config))
          /\ monitor'.batch_attempts = tally.batch_succ + tally.batch_fail
          /\ monitor'.total_attempts = tally.succ + tally.fail
          /\ monitor'.current_url = tally.url
      ]_vars

C16_Witness ==
    /\ verdict = "HALT"
    /\ monitor = [ batch_attempts |-> 2, batch_successes |-> 0,
                   total_attempts |-> 4, total_successes |-> 2,
                   current_url |-> "next" ]
    /\ pc = "idle"

\* C17: every LayoutShiftError raised by evaluate_batch carries the batch's
\* attempts (at least 1) as batch_size, the configured threshold, the batch's
\* failure ratio 1 - successes/attempts, which exceeds the threshold, and the
\* url given to the most recent start_batch.
C17_HaltCarriesTheBatch ==
    /\ verdict = "HALT" <=> raised # <<>>
    /\ raised # <<>> =>
          LET e == raised[1]
              attempts == tally.batch_succ + tally.batch_fail
          IN  /\ e.type = "LayoutShiftError"
              /\ e.batch_size = attempts
              /\ e.batch_size >= 1
              /\ e.threshold = config.watchdog_failure_threshold
              /\ e.failure_ratio = << tally.batch_fail, attempts >>
              /\ e.failure_ratio[1] * ThresholdDen > e.threshold * e.failure_ratio[2]
              /\ e.url = tally.url

C17_Witness ==
    /\ raised # <<>>
    /\ raised[1].batch_size = 2
    /\ raised[1].failure_ratio = <<1, 2>>
    /\ raised[1].threshold = 30
    /\ raised[1].url = "next"
    /\ monitor.total_attempts = 4
    /\ pc = "idle"

\* C18: the cumulative counters are run-scoped: at the return of every
\* extract() call on a scraper, a second call on the same instance included,
\* the Watchdog's cumulative attempts and successes (get_quality_summary)
\* equal total_attempted and total_succeeded of that run's result.
C18_SummaryMatchesResult ==
    Returned =>
       /\ GetSummary(monitor).total_attempts = result[1].total_attempted
       /\ GetSummary(monitor).total_successes = result[1].total_succeeded

\* the second call has returned, and the first one had processed a candidate
C18_Witness ==
    /\ Returned
    /\ calls.new_page = 2
    /\ result[1].total_attempted = 1
    /\ GetSummary(monitor).total_attempts = 2

\* ---- the phrase sets and the reading of "first" the statements below use
OutOfStockPhrases == {"out of stock", "sold out", "unavailable"}
InStockPhrases == {"in stock", "available"}

HasPhrase(text, phrases) == \E ph \in phrases : Contains(Lower(text), ph)

\* the rating words the lower-cased text contains, as their numbers
RatingWordsIn(text) ==
    { k \in 1 .. Len(WordToNum) : Contains(Lower(text), WordToNum[k]) }

FirstOccurrence(text, k) ==
    CHOOSE i \in Occurrences(Lower(text), WordToNum[k]) :
        \A j \in Occurrences(Lower(text), WordToNum[k]) : i <= j

\* the number of the rating word that occurs leftmost in the text
LeftmostWord(text) ==
    CHOOSE k \in RatingWordsIn(text) :
        \A j \in RatingWordsIn(text) : FirstOccurrence(text, k) <= FirstOccurrence(text, j)

\* C19: the stock normalizer maps every text that contains an out-of-stock
\* phrase ("out of stock", "sold out", "unavailable"), in any letter case, to
\* false, and every text that contains an in-stock phrase ("in stock",
\* "available") and no out-of-stock phrase to true.
C19_StockPhrasesDecide ==
    stock # <<>> =>
       /\ HasPhrase(value, OutOfStockPhrases) => stock = <<FALSE>>
       /\ (HasPhrase(value, InStockPhrases) /\ ~HasPhrase(value, OutOfStockPhrases)) =>
             stock = <<TRUE>>

\* "Unavailable" has been normalized, and came out as in stock
C19_Witness ==
    /\ value = "Unavailable"
    /\ stock = <<TRUE>>

\* C20: for a non-numeric rating string that contains more than one of the
\* words one..five, the rating normalizer returns the number of the word that
\* occurs first (leftmost) in the lower-cased string.
C20_LeftmostWordWins ==
    (rating # <<>> /\ ~IsNumeric(value) /\ Cardinality(RatingWordsIn(value)) > 1) =>
       /\ rating[1].ok
       /\ rating[1].rating = LeftmostWord(value)

\* "FIVE One" has been normalized: the leftmost word is five, the result is 1
C20_Witness ==
    /\ value = "FIVE One"
    /\ LeftmostWord(value) = 5
    /\ rating = << [ok |-> TRUE, rating |-> 1] >>

\* ---- how the statement on prices reads a text
\* the text without currency symbols and whitespace
PriceBody(text) == RemoveChars(text, CurrencyAndSpace)

HasDigit(t) == \E i \in 1 .. Len(t) : IndexIn(Digits, CharAt(t, i)) # 0

\* digits, commas and periods only, with at least one digit
IsNumeral(t) ==
    /\ HasDigit(t)
    /\ \A i \in 1 .. Len(t) :
          IndexIn(Digits, CharAt(t, i)) # 0 \/ CharAt(t, i) \in {",", "."}

CountOf(t, c) == Cardinality(Occurrences(t, c))

LastOf(t, c) == CHOOSE i \in Occurrences(t, c) : \A j \in Occurrences(t, c) : j <= i

\* the separator the statement makes the decimal point of a numeral
DecimalSeparatorOf(t) ==
    IF Contains(t, ",") /\ ~Contains(t, ".") THEN ","
    ELSE IF Contains(t, ",") /\ Contains(t, ".")
    THEN IF LastOf(t, ",") > LastOf(t, ".") THEN "," ELSE "."
    ELSE "."

\* a numeral with at most one decimal separator is read as its digits, the
\* digits after the separator being the decimals
PriceReadAsStated(t, p) ==
    LET sep == DecimalSeparatorOf(t)
    IN  /\ p.ok
        /\ p.kind = "finite"
        /\ ~p.neg
        /\ p.num = DecimalValue(RemoveChars(t, {",", "."}))
        /\ p.scale = IF Contains(t, sep) THEN Len(t) - LastOf(t, sep) ELSE 0

C21_SeparatorsClause ==
    (price # <<>> /\ IsNumeral(PriceBody(value))) =>
       IF CountOf(PriceBody(value), DecimalSeparatorOf(PriceBody(value))) <= 1
       THEN PriceReadAsStated(PriceBody(value), price[1])
       ELSE ~price[1].ok

C21_NegativeClause ==
    (/\ price # <<>>
     /\ PriceBody(value) # ""
     /\ CharAt(PriceBody(value), 1) = "-"
     /\ IsNumeral(Tail(PriceBody(value)))
     /\ DecimalValue(RemoveChars(Tail(PriceBody(value)), {",", "."})) > 0) =>
       ~price[1].ok

C21_NonNumericClause ==
    (price # <<>> /\ ~HasDigit(PriceBody(value))) => ~price[1].ok

\* C21: the price normalizer reads a numeral with commas only with each comma
\* as the decimal point, a numeral with commas and periods with the later of
\* the two as the decimal separator and the other removed, and a string left
\* with more than one decimal point, a negative value or non-numeric text
\* fails with a validation error on the price.
C21_PriceSeparators ==
    /\ C21_SeparatorsClause
    /\ C21_NegativeClause
    /\ C21_NonNumericClause

\* "Infinity" has been handed to the price field and was accepted
C21_Witness ==
    /\ value = "Infinity"
    /\ price # <<>>
    /\ price[1].ok
    /\ price[1].kind = "inf"

\* the text holds nothing but whitespace (or nothing at all)
IsBlank(text) == RemoveChars(text, Whitespace) = ""

\* C23: title normalization is idempotent (applied to its own output it
\* returns that output); in its output every run of whitespace of the input
\* is a single space and there is no leading or trailing whitespace, the
\* words being kept as they were; an empty or all-whitespace title fails.
C23_TitleNormalization ==
    title # <<>> =>
       /\ IsBlank(value) <=> ~title[1].ok
       /\ title[1].ok =>
            LET t == title[1].text
            IN  /\ TitleField(t) = title[1]
                /\ CleanTitle(t) = [ok |-> TRUE, text |-> t]
                /\ SplitWords(t) = SplitWords(value)
                /\ RemoveChars(t, {" "}) = RemoveChars(value, Whitespace)
                /\ \A i \in 1 .. Len(t) :
                      CharAt(t, i) \in Whitespace =>
                         /\ CharAt(t, i) = " "
                         /\ i > 1
                         /\ i < Len(t)
                         /\ CharAt(t, i + 1) \notin Whitespace

\* a title with leading, inner and trailing whitespace runs has been cleaned
C23_Witness ==
    /\ value = "  Tale \n of\t"
    /\ title = << [ok |-> TRUE, text |-> "Tale of"] >>

\* the ratings outside [1,5] the statement names: 0, 6, "0", "6"
OutOfRangeRatings == { IntRating(0), IntRating(6), StrRating("0"), StrRating("6") }

\* all five fields of the candidate normalize, and reading it raised nothing
NormalizesCompletely(c) ==
    /\ ~c.raises
    /\ TitleField(c.title).ok
    /\ PriceField(c.price).ok
    /\ StockField(c.stock).ok
    /\ RatingField(c.rating).ok
    /\ UrlField(c.url).ok

CompleteCandidates == { c \in Candidates : NormalizesCompletely(c) }

\* C22: record construction is all-or-nothing.  A candidate yields a record
\* only if its title, price, stock, rating and url all normalize; otherwise no
\* record exists for it and it is counted as exactly one failure.  Every
\* record collected has a non-empty title of at most 500 characters, a price
\* >= 0 and an integer rating in [1,5]; a rating of 0, 6, "0" or "6" never
\* produces a record.
C22_AllOrNothing ==
    /\ [](\A i \in 1 .. Len(validated_items) :
            LET r == validated_items[i]
            IN  /\ Len(r.title) >= 1
                /\ Len(r.title) <= TitleMaxLength
                /\ ~IsBlank(r.title)
                /\ r.price.kind \in {"finite", "inf"}
                /\ ~r.price.neg \/ (r.price.kind = "finite" /\ r.price.num = 0)
                /\ r.rating \in RatingMin .. RatingMax
                /\ r.stock \in BOOLEAN)
    /\ [](/\ Len(validated_items) + tally.batch_fail = idx
          /\ Len(validated_items) = tally.batch_succ
          /\ monitor.batch_attempts = idx
          /\ monitor.batch_successes = Len(validated_items)
          /\ total_attempted = idx
          /\ total_succeeded = Len(validated_items))
    /\ [][LET c == candidate'[1]
          IN  /\ c \in CompleteCandidates =>
                    /\ Len(validated_items') = Len(validated_items) + 1
                    /\ SubSeq(validated_items', 1, Len(validated_items)) = validated_items
                    /\ tally' = TallySuccess(tally)
              /\ c \notin CompleteCandidates =>
                    /\ validated_items' = validated_items
                    /\ tally' = TallyFailure(tally)
                    /\ monitor'.total_attempts = monitor.total_attempts + 1
                    /\ monitor'.total_successes = monitor.total_successes
              /\ c.rating \in OutOfRangeRatings => validated_items' = validated_items
         ]_vars

\* a record was built from the first candidate; the second, whose rating is
\* the numeric string "6", left none and was counted as a failure
C22_Witness ==
    /\ idx = 2
    /\ Len(validated_items) = 1
    /\ validated_items[1].rating = 3
    /\ validated_items[1].title = "A Tale"
    /\ candidate # <<>>
    /\ candidate[1].rating = StrRating("6")
    /\ candidate[1].title = " A  Tale "
    /\ candidate[1].price = "£51.77"
    /\ candidate[1].url = "https://example.com/a.html"
    /\ ~candidate[1].raises
    /\ tally.fail = 1
    /\ tally.succ = 1

\* C24: rotate_user_agent is called once after a page has been processed
\* exactly when the number of pages processed so far is a positive multiple
\* of the rotation period, and at no other time; a run that ends normally
\* after n pages has made n div 5 rotations; a rotation changes neither the
\* counters, nor the records collected, nor the next page identifier.
C24_RotationEveryFifthPage ==
    /\ [](/\ pc = "rotate" =>
                /\ calls.get_next_page_url = pages_scraped
                /\ pages_scraped > 0
                /\ pages_scraped % RotationPeriod = 0
                /\ calls.rotate_user_agent = (pages_scraped \div RotationPeriod) - 1
          /\ pc # "rotate" =>
                calls.rotate_user_agent = calls.get_next_page_url \div RotationPeriod
          /\ result # <<>> =>
                calls.rotate_user_agent = result[1].pages_scraped \div RotationPeriod)
    /\ [][calls'.rotate_user_agent # calls.rotate_user_agent =>
            /\ calls'.rotate_user_agent = calls.rotate_user_agent + 1
            /\ pages_scraped > 0
            /\ pages_scraped % RotationPeriod = 0
            /\ calls.get_next_page_url = pages_scraped
            /\ UNCHANGED <<items, total_attempted, total_succeeded, pages_scraped,
                           current_url, validated_items, monitor, tally, served,
                           raised, result>>
         ]_vars

\* a run over six pages has ended normally with records collected, after one
\* rotation that changed the user-agent
C24_Witness ==
    /\ pc = "done"
    /\ result # <<>>
    /\ result[1].pages_scraped = RotationPeriod + 1
    /\ Len(result[1].items) = RotationPeriod + 1
    /\ calls.rotate_user_agent = 1
    /\ manager.current_user_agent = "agent-2"

\* a monitor with the batch counters of m that has seen prior_attempts
\* attempts, prior_successes of them successful, in earlier batches
WithHistory(m, prior_attempts, prior_successes, url) ==
    [ batch_attempts |-> m.batch_attempts,
      batch_successes |-> m.batch_successes,
      total_attempts |-> m.batch_attempts + prior_attempts,
      total_successes |-> m.batch_successes + prior_successes,
      current_url |-> url ]

\* C25: the verdict of evaluate_batch is a function of the current batch's
\* attempts and successes and of the threshold only: every monitor with the
\* same batch counters and threshold gets the verdict this one got, whatever
\* its cumulative counters and earlier batches are.
C25_VerdictOfTheBatchAlone ==
    verdict # "none" =>
        /\ \A pa \in 0 .. MaxPrior : \A ps \in 0 .. pa :
              Verdict(EvaluateBatch(WithHistory(monitor, pa, ps, monitor.current_url),
                                    config)) = verdict
        /\ \A url \in Urls :
              Verdict(EvaluateBatch(WithHistory(monitor, 0, 0, url), config)) = verdict

\* a page has halted the run while the cumulative failure ratio is below the
\* threshold
C25_Witness ==
    /\ verdict = "HALT"
    /\ raised # <<>>
    /\ raised[1].type = "LayoutShiftError"
    /\ pages_scraped = 2
    /\ monitor.total_attempts > monitor.batch_attempts
    /\ (monitor.total_attempts - monitor.total_successes) * ThresholdDen
          < config.watchdog_failure_threshold * monitor.total_attempts

\* evaluate_batch is being called for a page whose container did not appear
\* (wait_for_content returned False) or on which no element was located
EmptyPageEvaluated ==
    /\ calls'.evaluate_batch = calls.evaluate_batch + 1
    /\ \/ pc = "wait"
       \/ pc = "items" /\ product_elements = 0

\* C26: a page whose container never appears, or on which zero candidates are
\* found, records no attempt, is evaluated as an empty batch with verdict PASS
\* under every threshold, contributes no record, and lets the loop go on to
\* next-page detection; it never halts the run.
C26_EmptyPageNeverHalts ==
    [][EmptyPageEvaluated =>
          /\ monitor.batch_attempts = 0
          /\ tally.batch_succ + tally.batch_fail = 0
          /\ monitor' = monitor
          /\ total_attempted' = total_attempted
          /\ total_succeeded' = total_succeeded
          /\ verdict' = "PASS"
          /\ raised' = <<>>
          /\ items' = items
          /\ pc' = "next_page"
      ]_vars

\* under threshold 0 a run has collected records on its first page, found
\* nothing on its second and gone on to look for a third
C26_Witness ==
    /\ config.watchdog_failure_threshold = 0
    /\ pc = "next_page"
    /\ pages_scraped = 2
    /\ verdict = "PASS"
    /\ monitor.batch_attempts = 0
    /\ monitor.total_attempts > 0
    /\ Len(items) = monitor.total_attempts
    /\ served[2].found = 0

Resources == <<"context", "browser", "playwright">>

\* the position of a resource in the order context, browser, playwright
CleanupRank(name) == CHOOSE i \in 1 .. Len(Resources) : Resources[i] = name

\* C27: when BrowserManager.create is left, normally or by an exception
\* (a failure during initialization included), cleanup has closed the
\* context, then the browser, then stopped playwright, in that order and each
\* at most once over the manager's lifetime; a failure closing one resource
\* neither prevents the later ones from being closed nor is raised; and
\* afterwards the three handles are None and is_initialized is false.
C27_CleanupOnEveryExit ==
    /\ [](\A i, j \in 1 .. Len(closes) :
             i < j => CleanupRank(closes[i].resource) < CleanupRank(closes[j].resource))
    /\ [](\A i \in 1 .. Len(closes) : manager[closes[i].resource] = None)
    /\ [](create.pc = "left" =>
             /\ manager.context = None
             /\ manager.browser = None
             /\ manager.playwright = None
             /\ ~IsInitialized(manager)
             /\ create.raised \in {<<>>, Exception("LayoutShiftError"),
                                   Exception("Exception"),
                                   Exception("BrowserInitializationError")})
    /\ [][/\ \A i \in 1 .. Len(Resources) :
                manager[Resources[i]] # None /\ manager'[Resources[i]] = None =>
                    /\ Len(closes') = Len(closes) + 1
                    /\ closes'[Len(closes')].resource = Resources[i]
          /\ closes' # closes =>
                /\ create'.raised = create.raised
                /\ SubSeq(closes', 1, Len(closes)) = closes
                /\ create'.pc \in {"close_browser", "stop_playwright", "reraise", "left"}
         ]_vars

\* the block was left normally; closing the context had failed, and the
\* browser and playwright were closed after it
C27_Witness ==
    /\ create.pc = "left"
    /\ create.raised = <<>>
    /\ closes = CloseCall("context", TRUE) \o CloseCall("browser", FALSE)
                    \o CloseCall("playwright", FALSE)
    /\ ~IsInitialized(manager)

DetectionFailed ==
    /\ Len(served) > 0
    /\ served[Len(served)].next = "exception"

\* C29: if next-page detection itself fails, get_next_page_url returns None:
\* the run ends as if the pagination were exhausted, no further page is
\* fetched, and extract() returns a normal result with the records collected
\* so far; the failure is not raised to the caller of extract().
C29_DetectionFailureEndsTheRun ==
    /\ [](DetectionFailed =>
             /\ current_url = None
             /\ raised = <<>>
             /\ pc \in {"loop", "rotate", "finally", "done"}
             /\ items = RecordsOfPages(served, Len(served))
             /\ pc = "done" =>
                   /\ result # <<>>
                   /\ result[1].items = items
                   /\ result[1].pages_scraped = Len(served)
                   /\ result[1].total_attempted = FoundOnPages(served, Len(served)))
    /\ [][DetectionFailed =>
             /\ calls'.navigate = calls.navigate
             /\ items' = items
             /\ raised' = <<>>
         ]_vars

\* the first page led to a second one, detection failed on the second, and
\* extract() returned the records of both pages
C29_Witness ==
    /\ Returned
    /\ Len(served) = 2
    /\ served[1].next = "next"
    /\ served[2].next = "exception"
    /\ Len(result[1].items) = 3
    /\ calls.navigate = 2

\* equality of two ratios given as fractions
SameRatio(p, q) == p[1] * q[2] = q[1] * p[2]

\* C30: for the same cumulative attempt and success counts, the failure rate
\* of the run result (1 - success_rate) equals the cumulative failure ratio
\* the monitor reports in get_summary, for every reachable pair of counts,
\* zero attempts included.
C30_FailureRatesAgree ==
    ( /\ Returned
      /\ result[1].total_attempted = GetSummary(monitor).total_attempts
      /\ result[1].total_succeeded = GetSummary(monitor).total_successes )
        => SameRatio(FailureRate(result[1]), GetSummary(monitor).failure_ratio)

\* a run whose only page had no element: the result's failure rate is 1.0,
\* the monitor's cumulative failure ratio 0.0
C30_Witness ==
    /\ Returned
    /\ result[1].total_attempted = 0
    /\ monitor.total_attempts = 0
    /\ result[1].pages_scraped = 1
    /\ FailureRate(result[1]) = <<1, 1>>
    /\ GetSummary(monitor).failure_ratio = <<0, 1>>

\* with at least one attempt the two rates are the same number
C30_RatesAgreeOnceAttempted ==
    ( /\ Returned
      /\ result[1].total_attempted > 0
      /\ result[1].total_attempted = GetSummary(monitor).total_attempts
      /\ result[1].total_succeeded = GetSummary(monitor).total_successes )
        => SameRatio(FailureRate(result[1]), GetSummary(monitor).failure_ratio)

====
